---- MODULE Spec2Model ----
(***************************************************************************)
(* Model of magnummsh/mesher.py: the Mesher facade over the native mesh    *)
(* engine (cpp.Mesher) and the Mesh(...) construction dispatcher.          *)
(*                                                                         *)
(* The native engine and the dolfin Mesh container are opaque              *)
(* collaborators: every call into them is recorded in `calls` (the calls   *)
(* the last handler made, in order) and ends with a nondeterministic       *)
(* outcome, either a returned value or a raised error.                     *)
(***************************************************************************)
EXTENDS Integers, Sequences, FiniteSets, TLC

VARIABLES
  celldomains,   \* Mesher._celldomains
  facetdomains,  \* Mesher._facetdomains
  sample,        \* the engine's sample size per axis 0..2 (a double, in halves)
  calls,         \* collaborator calls made by the last handler, in call order
  last,          \* the last handler run: its name, its arguments, its outcome
  passedCell,    \* history: classifiers passed to create_celldomain, in call order
  passedFacet    \* history: classifiers passed to create_facetdomain, in call order

vars == <<celldomains, facetdomains, sample, calls, last, passedCell, passedFacet>>

\* ------------------------------------------------------------------ bounds

\* most classifiers one builder is given (both lists together)
MaxRefs == 3
\* longest path string handed to Mesh(...)
MaxLen == 5

\* ------------------------------------------------------------------ values

\* Python values. A float is kept in halves (v = 3 is 1.5), so that the
\* int -> double and double -> int conversions are not the identity.
PyInt(k) == [t |-> "int", v |-> k]
PyFloat(h) == [t |-> "float", v |-> h]
PyTuple(x) == [t |-> "tuple", v |-> x]
\* a string, as the sequence of its characters
PyStr(cs) == [t |-> "str", v |-> cs]
\* a string that is no number
NonNumeric == PyStr(<<"a">>)
\* any other object (a Mesh to copy, a communicator, ...)
Object == [t |-> "object", v |-> 0]
None == [t |-> "None", v |-> 0]
\* stands for a parameter the caller did not pass
Omitted == [t |-> "omitted", v |-> 0]

IsNumber(x) == x.t \in {"int", "float"}

\* the numeric value of a Python number, in halves
Halves(x) == IF x.t = "int" THEN 2 * x.v ELSE x.v

\* C conversion to double: the value is kept
ToDouble(x) == Halves(x)

\* C conversion to int: an int is kept, a float is truncated toward zero
ToInt(x) ==
  IF x.t = "int" THEN x.v
  ELSE IF x.v >= 0 THEN x.v \div 2 ELSE -((-x.v) \div 2)

\* outcomes of a call
Return(v) == [kind |-> "return", val |-> v, by |-> "none"]
Raise(e, who) == [kind |-> "raise", val |-> e, by |-> who]

\* numpy.array(x, dtype=...): a typed vector, or ValueError raised inside
\* this layer when an element is not a number
array(x, dtype) ==
  IF \E k \in 1..Len(x.v) : ~IsNumber(x.v[k])
  THEN Raise("ValueError", "wrapper")
  ELSE Return([dtype |-> dtype,
               v |-> [k \in 1..Len(x.v) |->
                        IF dtype = "d" THEN ToDouble(x.v[k]) ELSE ToInt(x.v[k])]])

\* ------------------------------------------------------------------ inputs

\* representative argument triples of create_cuboid / create_shell
Sizes == {PyTuple(<<PyInt(2), PyInt(0), PyFloat(-3)>>),
          PyTuple(<<PyFloat(5), PyFloat(1), PyInt(-1)>>),
          PyTuple(<<PyInt(1), NonNumeric, PyInt(1)>>)}
Counts == {PyTuple(<<PyInt(2), PyInt(0), PyInt(-1)>>),
           PyTuple(<<PyInt(3), PyInt(1), PyInt(2)>>),
           PyTuple(<<PyFloat(5), PyInt(1), PyFloat(-3)>>),
           PyTuple(<<PyInt(1), PyInt(1), NonNumeric>>)}
Classifiers == {"inner", "outer"}
DomainIds == 1..2
Layers == {PyInt(2)}
Margins == {Omitted, PyFloat(1)}
Progressions == {Omitted, PyFloat(3)}
Scales == {Omitted, PyFloat(3), PyInt(2)}
Targets == {Omitted, [t |-> "mesh", v |-> "caller"]}
FreshMeshes == {[t |-> "mesh", v |-> "new1"], [t |-> "mesh", v |-> "new2"]}
\* axis 3 is out of range
Axes == {Omitted} \cup {PyInt(k) : k \in 0..3}
\* sample sizes the engine may hold per axis (doubles in halves)
SampleStates == {(0 :> 4 @@ 1 :> 6 @@ 2 :> 10), (0 :> 6 @@ 1 :> 6 @@ 2 :> 4)}

\* ------------------------------------------------------------------ collaborators

\* what the engine may answer to a call: any result, or an error of its own
EngineOutcomes == {Return("r1"), Return("r2"), Raise("EngineError", "engine")}
\* the engine's meshing routine fills the mesh in place and returns nothing
MeshOutcomes == {Return(None), Raise("EngineError", "engine")}
\* dolfin.Mesh(...) hands back a new Mesh or raises an error of its own
ContainerOutcomes ==
  {Return(f) : f \in FreshMeshes} \cup {Raise("RuntimeError", "container")}

\* a recorded collaborator call; held is the builder's retention lists at
\* the moment of the call
Call(op, args, out, held) == [op |-> op, args |-> args, out |-> out, held |-> held]

Held(cell, facet) == [cell |-> cell, facet |-> facet]

\* ------------------------------------------------------------------ Mesher

\* a run of a handler: the collaborator calls it made, its outcome and the
\* retention lists it leaves behind
Run(cs, out, cell, facet) == [calls |-> cs, out |-> out, cell |-> cell, facet |-> facet]

\* a handler that ends by returning the engine's answer to one call
Forward(op, args, cell, facet) ==
  {Run(<<Call(op, args, o, Held(cell, facet))>>, o, cell, facet) : o \in EngineOutcomes}

\* create_cuboid with size coerced like n (dtype="i" written twice)
create_cuboid_runs_int(cell, facet, size, n) ==
  LET a == array(size, "i")
      b == array(n, "i")
  IN  IF a.kind = "raise" THEN {Run(<<>>, a, cell, facet)}
      ELSE IF b.kind = "raise" THEN {Run(<<>>, b, cell, facet)}
      ELSE Forward("create_cuboid", <<a.val, b.val>>, cell, facet)

\* Mesher.create_cuboid(size, n)
create_cuboid_runs(cell, facet, size, n) ==
  LET a == array(size, "d")
      b == array(n, "i")
  IN  IF a.kind = "raise" THEN {Run(<<>>, a, cell, facet)}
      ELSE IF b.kind = "raise" THEN {Run(<<>>, b, cell, facet)}
      ELSE Forward("create_cuboid", <<a.val, b.val>>, cell, facet)

\* create_celldomain keeping only the latest classifier
create_celldomain_runs_replace(cell, facet, domain, domain_id) ==
  Forward("create_celldomain", <<domain, domain_id>>, <<domain>>, facet)

\* create_celldomain appending only after the engine has returned
create_celldomain_runs_late(cell, facet, domain, domain_id) ==
  { Run(<<Call("create_celldomain", <<domain, domain_id>>, o, Held(cell, facet))>>, o,
        IF o.kind = "raise" THEN cell ELSE Append(cell, domain), facet)
    : o \in EngineOutcomes }

\* Mesher.create_celldomain(domain, domain_id)
create_celldomain_runs(cell, facet, domain, domain_id) ==
  Forward("create_celldomain", <<domain, domain_id>>, Append(cell, domain), facet)

\* create_facetdomain appending to the cell list (a copied line left unedited)
create_facetdomain_runs_cell(cell, facet, domain, domain_id) ==
  Forward("create_facetdomain", <<domain, domain_id>>, Append(cell, domain), facet)

\* Mesher.create_facetdomain(domain, domain_id)
create_facetdomain_runs(cell, facet, domain, domain_id) ==
  Forward("create_facetdomain", <<domain, domain_id>>, cell, Append(facet, domain))

\* a parameter the caller left out takes the default of the signature
Default(x, dflt) == IF x = Omitted THEN dflt ELSE x

\* create_shell handing n and progression over in the wrong order
create_shell_runs_swapped(cell, facet, d, margin, n, progression) ==
  LET m == Default(margin, PyFloat(0))
      nn == Default(n, PyTuple(<<PyInt(0), PyInt(0), PyInt(0)>>))
      p == Default(progression, PyFloat(2))
      b == array(nn, "i")
  IN  IF b.kind = "raise" THEN {Run(<<>>, b, cell, facet)}
      ELSE Forward("create_shell", <<d, m, p, b.val>>, cell, facet)

\* Mesher.create_shell(d, margin = 0.0, n = (0,0,0), progression = 1.0)
create_shell_runs(cell, facet, d, margin, n, progression) ==
  LET m == Default(margin, PyFloat(0))
      nn == Default(n, PyTuple(<<PyInt(0), PyInt(0), PyInt(0)>>))
      p == Default(progression, PyFloat(2))
      b == array(nn, "i")
  IN  IF b.kind = "raise" THEN {Run(<<>>, b, cell, facet)}
      ELSE Forward("create_shell", <<d, m, b.val, p>>, cell, facet)

\* mesh allocating a new Mesh whether or not a target was given
mesh_runs_always_new(cell, facet, scale, mesh) ==
  LET s == Default(scale, PyFloat(2))
      h == Held(cell, facet)
  IN  UNION {
        { Run(<<Call("dolfin.Mesh", <<>>, Return(f), h), Call("mesh", <<f, s>>, o, h)>>,
              IF o.kind = "raise" THEN o ELSE Return(f), cell, facet)
          : o \in MeshOutcomes }
        : f \in FreshMeshes }

\* Mesher.mesh(scale = 1.0, mesh = None); dolfin.Mesh() builds an empty
\* container and hands back a new object
mesh_runs(cell, facet, scale, mesh) ==
  LET s == Default(scale, PyFloat(2))
      m == Default(mesh, None)
      h == Held(cell, facet)
  IN  UNION {
        LET alloc == IF m = None
                       THEN <<Call("dolfin.Mesh", <<>>, Return(f), h)>>
                       ELSE <<>>
            target == IF m = None THEN f ELSE m
        IN  { Run(alloc \o <<Call("mesh", <<target, s>>, o, h)>>,
                  IF o.kind = "raise" THEN o ELSE Return(target), cell, facet)
              : o \in MeshOutcomes }
        : f \in IF m = None THEN FreshMeshes ELSE {None} }

\* double * scale in Python: the product as a double (in halves)
Times(x, scale) == (x * Halves(scale)) \div 2

\* the engine's answer to get_sample_size(i)
SampleOutcomes(smp, i) ==
  IF i.t = "int" /\ i.v \in DOMAIN smp
  THEN {Return(smp[i.v]), Raise("EngineError", "engine")}
  ELSE {Raise("EngineError", "engine")}

\* the loop `for i in range(3): size.append(...)` from index i on
RECURSIVE size_loop(_, _, _, _, _, _, _)
size_loop(smp, s, cell, facet, i, size, cs) ==
  IF i = 3 THEN {Run(cs, Return(size), cell, facet)}
  ELSE UNION {
         LET c == Call("get_sample_size", <<PyInt(i)>>, o, Held(cell, facet))
         IN  IF o.kind = "raise" THEN {Run(Append(cs, c), o, cell, facet)}
             ELSE size_loop(smp, s, cell, facet, i + 1,
                            Append(size, Times(o.val, s)), Append(cs, c))
         : o \in SampleOutcomes(smp, PyInt(i)) }

\* get_sample_size whose loop is range(1, 3)
get_sample_size_runs_from_one(smp, cell, facet, i, scale) ==
  LET s == Default(scale, PyFloat(2))
      ii == Default(i, None)
  IN  IF ii # None
      THEN { Run(<<Call("get_sample_size", <<ii>>, o, Held(cell, facet))>>,
                 IF o.kind = "raise" THEN o ELSE Return(Times(o.val, s)),
                 cell, facet)
             : o \in SampleOutcomes(smp, ii) }
      ELSE size_loop(smp, s, cell, facet, 1, <<>>, <<>>)

\* Mesher.get_sample_size(i = None, scale = 1.0)
get_sample_size_runs(smp, cell, facet, i, scale) ==
  LET s == Default(scale, PyFloat(2))
      ii == Default(i, None)
  IN  IF ii # None
      THEN { Run(<<Call("get_sample_size", <<ii>>, o, Held(cell, facet))>>,
                 IF o.kind = "raise" THEN o ELSE Return(Times(o.val, s)),
                 cell, facet)
             : o \in SampleOutcomes(smp, ii) }
      ELSE size_loop(smp, s, cell, facet, 0, <<>>, <<>>)

\* ------------------------------------------------------------------ Mesh(...)

\* `.` of the pattern: any character except a newline, for the first i characters
NoNewline(s, i) == \A k \in 1..i : s[k] # "\n"

\* `$` of the pattern after j characters: the end of the string, or just
\* before a newline that ends the string
AtEnd(s, j) == j = Len(s) \/ (j = Len(s) - 1 /\ s[Len(s)] = "\n")

\* re.match(r'.*[.]xml$', s) is not None
re_match(s) ==
  \E i \in 0..Len(s) :
    /\ NoNewline(s, i)
    /\ i + 4 <= Len(s)
    /\ SubSeq(s, i + 1, i + 4) = <<".", "x", "m", "l">>
    /\ AtEnd(s, i + 4)

\* Mesh(*args, **kwargs)
Mesh_runs(args, kwargs) ==
  LET none == Held(<<>>, <<>>)
  IN  IF Len(args) = 1 /\ args[1].t # "str"
      THEN {Run(<<>>, Raise("TypeError", "wrapper"), <<>>, <<>>)}
      ELSE IF Len(args) = 1 /\ ~re_match(args[1].v)
      THEN LET new == Call("Mesher", <<>>, Return(None), none)
           IN  UNION {
                 LET read == Call("read_file", <<args[1]>>, o, none)
                 IN  IF o.kind = "raise" THEN {Run(<<new, read>>, o, <<>>, <<>>)}
                     ELSE { Run(<<new, read>> \o r.calls, r.out, r.cell, r.facet)
                            : r \in mesh_runs(<<>>, <<>>, Omitted, Omitted) }
                 : o \in MeshOutcomes }
      ELSE { Run(<<Call("dolfin.Mesh", <<args, kwargs>>, o, none)>>, o, <<>>, <<>>)
             : o \in ContainerOutcomes }

\* ------------------------------------------------------------------ actions

\* the state a handler run leaves
Finish(op, args, r) ==
  /\ celldomains' = r.cell
  /\ facetdomains' = r.facet
  /\ calls' = r.calls
  /\ last' = [op |-> op, args |-> args, out |-> r.out]

Init ==
  /\ celldomains = <<>>
  /\ facetdomains = <<>>
  /\ sample \in SampleStates
  /\ calls = <<>>
  /\ last = [op |-> "__init__", args |-> <<>>, out |-> Return(None)]
  /\ passedCell = <<>>
  /\ passedFacet = <<>>

create_cuboid(size, n) ==
  /\ \E r \in create_cuboid_runs(celldomains, facetdomains, size, n) :
       /\ Finish("create_cuboid", <<size, n>>, r)
       \* a cuboid the engine built has whatever sample size the engine gives it
       /\ sample' \in IF r.out.kind = "return" THEN SampleStates ELSE {sample}
  /\ UNCHANGED <<passedCell, passedFacet>>

create_celldomain(domain, domain_id) ==
  /\ Len(celldomains) + Len(facetdomains) < MaxRefs
  /\ \E r \in create_celldomain_runs(celldomains, facetdomains, domain, domain_id) :
       Finish("create_celldomain", <<domain, domain_id>>, r)
  /\ passedCell' = Append(passedCell, domain)
  /\ UNCHANGED <<sample, passedFacet>>

create_facetdomain(domain, domain_id) ==
  /\ Len(celldomains) + Len(facetdomains) < MaxRefs
  /\ \E r \in create_facetdomain_runs(celldomains, facetdomains, domain, domain_id) :
       Finish("create_facetdomain", <<domain, domain_id>>, r)
  /\ passedFacet' = Append(passedFacet, domain)
  /\ UNCHANGED <<sample, passedCell>>

create_shell(d, margin, n, progression) ==
  /\ \E r \in create_shell_runs(celldomains, facetdomains, d, margin, n, progression) :
       Finish("create_shell", <<d, margin, n, progression>>, r)
  /\ UNCHANGED <<sample, passedCell, passedFacet>>

mesh(scale, target) ==
  /\ \E r \in mesh_runs(celldomains, facetdomains, scale, target) :
       Finish("mesh", <<scale, target>>, r)
  /\ UNCHANGED <<sample, passedCell, passedFacet>>

get_sample_size(i, scale) ==
  /\ \E r \in get_sample_size_runs(sample, celldomains, facetdomains, i, scale) :
       Finish("get_sample_size", <<i, scale>>, r)
  /\ UNCHANGED <<sample, passedCell, passedFacet>>

Next ==
  \/ \E size \in Sizes, n \in Counts : create_cuboid(size, n)
  \/ \E domain \in Classifiers, id \in DomainIds : create_celldomain(domain, id)
  \/ \E domain \in Classifiers, id \in DomainIds : create_facetdomain(domain, id)
  \/ \E d \in Layers, margin \in Margins, n \in Counts \cup {Omitted},
        progression \in Progressions : create_shell(d, margin, n, progression)
  \/ \E scale \in Scales, target \in Targets : mesh(scale, target)
  \/ \E i \in Axes, scale \in Scales : get_sample_size(i, scale)

Spec == Init /\ [][Next]_vars

\* ---- the dispatcher, a function of its arguments: one call per behaviour

Chars == {"a", ".", "x", "m", "l", "\n"}
\* the strings of at most n characters
Paths(n) == UNION {[1..k -> Chars] : k \in 0..n}
Seconds == {Object, PyStr(<<".", "x", "m", "l">>)}
\* argument lists of 0, 1 and 2 positional arguments, strings up to n long
ArgLists(n) ==
  {<<>>, <<Object>>} \cup {<<PyStr(q)>> : q \in Paths(n)}
    \cup {<<PyStr(q), x>> : q \in Paths(n), x \in Seconds}
Kwargs == {{}, {"comm"}}

Pending == [kind |-> "pending", val |-> None, by |-> "none"]

InitMesh ==
  /\ celldomains = <<>>
  /\ facetdomains = <<>>
  /\ sample \in SampleStates
  /\ calls = <<>>
  /\ last \in {[op |-> "Mesh", args |-> <<a, kw>>, out |-> Pending] :
                 a \in ArgLists(MaxLen), kw \in Kwargs}
  /\ passedCell = <<>>
  /\ passedFacet = <<>>

Mesh ==
  /\ last.op = "Mesh"
  /\ last.out = Pending
  /\ \E r \in Mesh_runs(last.args[1], last.args[2]) :
       /\ calls' = r.calls
       /\ last' = [last EXCEPT !.out = r.out]
  /\ UNCHANGED <<celldomains, facetdomains, sample, passedCell, passedFacet>>

NextMesh == Mesh

SpecMesh == InitMesh /\ [][NextMesh]_vars


\* ------------------------------------------------------------------ claims

IsPrefix(s, t) == Len(s) <= Len(t) /\ SubSeq(t, 1, Len(s)) = s

Done == last.out.kind \in {"return", "raise"}

\* the calls of the last handler whose operation is op
CallsOf(op) == {k \in 1..Len(calls) : calls[k].op = op}

\* s ends in the literal suffix .xml
EndsWithXml(s) ==
  Len(s) >= 4 /\ SubSeq(s, Len(s) - 3, Len(s)) = <<".", "x", "m", "l">>

\* z is the integer part of the value h (in halves)
IntPartOf(h, z) ==
  /\ h >= 0 => (2 * z <= h /\ h < 2 * z + 2)
  /\ h < 0 => (2 * z >= h /\ h > 2 * z - 2)

\* C1: a call Mesh(p) with one string p that does not end in ".xml" builds a
\* Mesher, calls read_file(p), then mesh() with the defaults (a new Mesh,
\* scale 1.0), returns that Mesh, and never calls dolfin.Mesh with p.
C1_NonXmlGoesThroughMesher ==
  (last.op = "Mesh" /\ Done /\ Len(last.args[1]) = 1
     /\ last.args[1][1].t = "str" /\ ~EndsWithXml(last.args[1][1].v))
  => /\ Len(calls) >= 2
     /\ calls[1].op = "Mesher"
     /\ calls[2].op = "read_file"
     /\ calls[2].args = <<last.args[1][1]>>
     /\ \A k \in CallsOf("dolfin.Mesh") : calls[k].args = <<>>
     /\ calls[2].out.kind = "return" =>
          /\ Len(calls) = 4
          /\ calls[3].op = "dolfin.Mesh"
          /\ calls[4].op = "mesh"
          /\ calls[4].args = <<calls[3].out.val, PyFloat(2)>>
          /\ last.out.kind = "return" => last.out.val = calls[3].out.val

\* C2: a call Mesh(...) with no argument, with two or more, or with one
\* string ending in ".xml" makes exactly one collaborator call, dolfin.Mesh
\* with the arguments unchanged, and hands back its outcome.
C2_OthersGoToContainer ==
  (last.op = "Mesh" /\ Done
     /\ \/ Len(last.args[1]) # 1
        \/ (last.args[1][1].t = "str" /\ EndsWithXml(last.args[1][1].v)))
  => /\ Len(calls) = 1
     /\ calls[1].op = "dolfin.Mesh"
     /\ calls[1].args = last.args
     /\ last.out = calls[1].out

\* C3: the retention lists hold exactly the classifiers passed to
\* create_celldomain / create_facetdomain so far, in call order, in every
\* state of the builder.
C3_AllClassifiersRetained ==
  /\ celldomains = passedCell
  /\ facetdomains = passedFacet

C3_Witness ==
  /\ Len(passedCell) = 2
  /\ passedCell[1] # passedCell[2]
  /\ Len(passedFacet) = 1
  /\ last.op = "mesh"

\* C4: mesh(scale, target) allocates a Mesh exactly when no target is given,
\* calls the engine's mesh exactly once with (that mesh, scale) and returns
\* that same object.
C4_MeshReturnsItsTarget ==
  last.op = "mesh" =>
    LET scale == IF last.args[1] = Omitted THEN PyFloat(2) ELSE last.args[1]
        target == last.args[2]
        n == Len(calls)
    IN  /\ Cardinality(CallsOf("mesh")) = 1
        /\ calls[n].op = "mesh"
        /\ last.out.kind = "raise" => last.out = calls[n].out
        /\ target \in {Omitted, None} =>
             /\ n = 2
             /\ calls[1].op = "dolfin.Mesh"
             /\ calls[1].args = <<>>
             /\ calls[1].out.val \in FreshMeshes
             /\ calls[2].args = <<calls[1].out.val, scale>>
             /\ last.out.kind = "return" => last.out.val = calls[1].out.val
        /\ target \notin {Omitted, None} =>
             /\ n = 1
             /\ calls[1].args = <<target, scale>>
             /\ last.out.kind = "return" => last.out.val = target

C4_Witness ==
  /\ last.op = "mesh"
  /\ last.args[2] \notin {Omitted, None}
  /\ last.args[1] = PyFloat(3)
  /\ last.out.kind = "return"

\* C5: get_sample_size with no axis returns 3 elements, element k the
\* engine's sample size of axis k times scale, which is what
\* get_sample_size(k, scale) returns as a single value, axis 0 included.
C5_SampleSizePerAxis ==
  (last.op = "get_sample_size" /\ last.out.kind = "return") =>
    LET scale == IF last.args[2] = Omitted THEN PyFloat(2) ELSE last.args[2]
        axis == last.args[1]
    IN  IF axis = Omitted
        THEN /\ Len(last.out.val) = 3
             /\ \A k \in 0..2 :
                  2 * last.out.val[k + 1] = sample[k] * Halves(scale)
        ELSE 2 * last.out.val = sample[axis.v] * Halves(scale)

C5_Witness ==
  /\ last.op = "get_sample_size"
  /\ last.args = <<Omitted, PyFloat(3)>>
  /\ last.out.kind = "return"
  /\ last.out.val = <<6, 9, 15>>

\* C6: whenever a handler raises, the error is the one the engine or the
\* container raised in the last call the handler made.
C6_NoErrorsOfItsOwn ==
  last.out.kind = "raise" =>
    /\ last.out.by \in {"engine", "container"}
    /\ calls # <<>>
    /\ last.out = calls[Len(calls)].out

\* C7: create_shell makes exactly one engine call, create_shell(d, margin,
\* n as an int vector, progression), each omitted parameter replaced by its
\* default 0.0, (0,0,0), 1.0, and returns the engine's outcome (n a triple
\* of numbers).
C7_ShellForwarded ==
  (last.op = "create_shell"
     /\ (last.args[3] # Omitted => \A k \in 1..3 : IsNumber(last.args[3].v[k])))
  => /\ Len(calls) = 1
     /\ calls[1].op = "create_shell"
     /\ Len(calls[1].args) = 4
     /\ calls[1].args[1] = last.args[1]
     /\ calls[1].args[2] = (IF last.args[2] = Omitted THEN PyFloat(0) ELSE last.args[2])
     /\ calls[1].args[4] = (IF last.args[4] = Omitted THEN PyFloat(2) ELSE last.args[4])
     /\ calls[1].args[3].dtype = "i"
     /\ Len(calls[1].args[3].v) = 3
     /\ \A k \in 1..3 :
          IF last.args[3] = Omitted THEN calls[1].args[3].v[k] = 0
          ELSE IntPartOf(Halves(last.args[3].v[k]), calls[1].args[3].v[k])
     /\ last.out = calls[1].out

C7_Witness ==
  /\ last.op = "create_shell"
  /\ last.args = <<PyInt(2), Omitted, Omitted, Omitted>>
  /\ calls[1].args = <<PyInt(2), PyFloat(0), [dtype |-> "i", v |-> <<0, 0, 0>>], PyFloat(2)>>
  /\ last.out.kind = "return"

\* C8: for a size triple of numbers and an n triple of ints, create_cuboid
\* makes exactly one engine call, create_cuboid(size as 3 doubles, n as 3
\* ints), values and order kept, zero and negative entries included, and
\* returns the engine's outcome.
C8_CuboidForwarded ==
  (last.op = "create_cuboid"
     /\ \A k \in 1..3 : IsNumber(last.args[1].v[k]) /\ last.args[2].v[k].t = "int")
  => /\ Len(calls) = 1
     /\ calls[1].op = "create_cuboid"
     /\ Len(calls[1].args) = 2
     /\ calls[1].args[1].dtype = "d"
     /\ calls[1].args[2].dtype = "i"
     /\ Len(calls[1].args[1].v) = 3
     /\ Len(calls[1].args[2].v) = 3
     /\ \A k \in 1..3 :
          /\ calls[1].args[1].v[k] = Halves(last.args[1].v[k])
          /\ calls[1].args[2].v[k] = last.args[2].v[k].v
     /\ last.out = calls[1].out

C8_Witness ==
  /\ last.op = "create_cuboid"
  /\ last.args[1] = PyTuple(<<PyInt(2), PyInt(0), PyFloat(-3)>>)
  /\ last.args[2] = PyTuple(<<PyInt(2), PyInt(0), PyInt(-1)>>)
  /\ calls[1].args[1].v = <<4, 0, -3>>
  /\ last.out = Return("r2")

\* C9: in every step both retention lists extend their former value;
\* create_celldomain appends its classifier to celldomains only,
\* create_facetdomain to facetdomains only, and every other operation
\* leaves both lists as they were.
C9_Step ==
  /\ IsPrefix(celldomains, celldomains')
  /\ IsPrefix(facetdomains, facetdomains')
  /\ last'.op = "create_celldomain" =>
       /\ celldomains' = Append(celldomains, last'.args[1])
       /\ facetdomains' = facetdomains
  /\ last'.op = "create_facetdomain" =>
       /\ facetdomains' = Append(facetdomains, last'.args[1])
       /\ celldomains' = celldomains
  /\ last'.op \in {"create_cuboid", "create_shell", "mesh", "get_sample_size"} =>
       /\ celldomains' = celldomains
       /\ facetdomains' = facetdomains

\* C9: every step of the builder is a C9_Step: the retention lists only
\* grow, and only by the append of the domain method that ran.
C9_ListsOnlyGrow == [][C9_Step]_vars

C9_Witness ==
  /\ last.op = "create_facetdomain"
  /\ Len(celldomains) = 1
  /\ Len(facetdomains) = 2

\* C10: create_celldomain / create_facetdomain hand (domain, domain_id) to
\* the engine in one call, made when the classifier is already the last
\* element of the retention list; when that call raises, the error is
\* handed on and the classifier is still the last element of the list.
C10_RetainedBeforeEngineCall ==
  /\ last.op = "create_celldomain" =>
       /\ Len(calls) = 1
       /\ calls[1].op = "create_celldomain"
       /\ calls[1].args = last.args
       /\ calls[1].held.cell # <<>>
       /\ calls[1].held.cell[Len(calls[1].held.cell)] = last.args[1]
       /\ last.out = calls[1].out
       /\ celldomains = calls[1].held.cell
  /\ last.op = "create_facetdomain" =>
       /\ Len(calls) = 1
       /\ calls[1].op = "create_facetdomain"
       /\ calls[1].args = last.args
       /\ calls[1].held.facet # <<>>
       /\ calls[1].held.facet[Len(calls[1].held.facet)] = last.args[1]
       /\ last.out = calls[1].out
       /\ facetdomains = calls[1].held.facet

C10_Witness ==
  /\ last.op = "create_celldomain"
  /\ last.out.kind = "raise"
  /\ Len(celldomains) = 2
  /\ celldomains[2] = last.args[1]

====
